---- MODULE Spec2Model ----
(***************************************************************************)
(* Model of the smart-city prediction service (ml-python):                 *)
(*   services/forecast.py  ForecastService   (forecast cache)              *)
(*   services/ml_model.py  pm25_to_aqi, SmartCityMLModel (model store)     *)
(*   services/logic.py     PredictionService (prediction pipeline)         *)
(* Each component has its own specification over the shared variables;     *)
(* the variables of the other components stay at their initial values.     *)
(***************************************************************************)
EXTENDS Integers, Sequences, FiniteSets, TLC

\* ------------------------------------------------------------------------
\* Bounds of the model
\* ------------------------------------------------------------------------
NumCallers == 2      \* coroutines that call get_forecast
MaxCalls == 3        \* get_forecast calls started in one behaviour
MaxTicks == 2        \* clock advances in one behaviour
TickStep == 1800     \* seconds added by one clock advance
MaxConcTenths == 5020  \* highest concentration converted, in 0.1 ug/m3
MaxDelta == 12       \* widest gap between two compared concentrations, 0.01 ug/m3
MaxRuns == 2         \* training runs in one behaviour
MaxFlips == 1        \* bytes of persisted files changed behind the service
MaxRestarts == 1     \* process restarts in one behaviour
MaxRequests == 1     \* predict requests served in one behaviour
MaxSeriesLen == 9    \* rows of the column given to _engineer_features
MinRows == 98        \* fewest rows of a frame given to train
MaxRows == 108       \* most rows of a frame given to train
MaxInterp == 10      \* most rows flagged is_interpolated

\* ------------------------------------------------------------------------
\* Program constants
\* ------------------------------------------------------------------------
CACHE_TTL == 3600

\* Python's None, where a variable holds either None or a record
NoneVal == [tag |-> "None"]

VARIABLES
    \* ForecastService fields
    cache,            \* self._cache: NoneVal or a merged payload
    cache_time,       \* self._cache_time
    lockHolder,       \* self._lock: 0 when free, else the caller holding it
    waiters,          \* self._lock: FIFO queue of callers waiting to acquire
    \* environment of the forecast service
    now,              \* time.time()
    ticks,            \* clock advances so far
    weatherFetches,   \* requests sent to FORECAST_URL
    aqiFetches,       \* requests sent to AQI_FORECAST_URL
    calls,            \* get_forecast calls started
    \* one get_forecast call per caller
    pc,               \* where the call is
    ret,              \* the value the call returned
    forecast,         \* local: result of _fetch_weather_forecast
    path,             \* which way the call went: none, fast, recheck, fetch
    cohort,           \* calls that were in flight together with this call
    fetchTime,        \* clock value when this call started its fetch
    merged_aqi,       \* the aqi argument of the merge that built ret
    http_client,      \* self._client: None, open or closed
    stopped,          \* the application's shutdown handler has run
    \* one call of _engineer_features and one split inside train
    column,           \* a source column in date order
    df_feat,          \* NoneVal, or the lag and rolling features per row
    n_total,          \* rows of the frame given to train
    n_interp,         \* how many of them, the earliest, are interpolated
    splits,           \* NoneVal, or what train split and fitted
    \* two calls of pm25_to_aqi
    pm25_a,           \* argument of the first call: [nan, c], c in 0.01 ug/m3
    pm25_b,           \* argument of the second call
    aqi_a,            \* result of the first call, -1 before it
    aqi_b,            \* result of the second call, -1 before it
    \* SmartCityMLModel and its MODEL_DIR
    ml,               \* the instance: its fields
    disk,             \* MODEL_DIR: file name -> content
    sklearn,          \* SKLEARN_AVAILABLE
    dfState,          \* PredictionService.df: none, empty, small, ok
    phase,            \* init_load, init_train, serving, crashed
    runs,             \* training runs started
    flips,            \* bytes changed on disk so far
    restarts,         \* process restarts so far
    trainResult,      \* what the last train call gave its caller
    loadResult,       \* what the last load_models call returned
    httpResult,       \* status of the last /model/retrain response
    manifestAtSave,   \* the checksums the last completed save wrote
    lastInference,    \* what the last SmartCityMLModel.predict call used
    \* PredictionService.predict
    df,               \* self.df: None or the rows of the CSV
    monthly_stats,    \* self.monthly_stats
    groq_client,      \* whether self.groq_client is set
    req,              \* the arguments of the request being served
    prpc,             \* idle, forecast, groq, done, raised
    loc,              \* the local variables of predict after the blend
    response,         \* the dict predict returns
    served            \* requests answered so far

fcVars == <<cache, cache_time, lockHolder, waiters, now, ticks, weatherFetches,
            aqiFetches, calls, pc, ret, forecast, path, cohort, fetchTime,
            merged_aqi, http_client, stopped>>

aqiVars == <<pm25_a, pm25_b, aqi_a, aqi_b>>

mlVars == <<ml, disk, sklearn, dfState, phase, runs, flips, restarts,
            trainResult, loadResult, httpResult, manifestAtSave,
            lastInference>>

prVars == <<df, monthly_stats, groq_client, req, prpc, loc, response, served>>

feVars == <<column, df_feat, n_total, n_interp, splits>>

vars == <<fcVars, aqiVars, mlVars, prVars, feVars>>

\* what the actions of one component leave alone
nonFcVars == <<aqiVars, mlVars, prVars, feVars>>
nonAqiVars == <<fcVars, mlVars, prVars, feVars>>
nonMlVars == <<fcVars, aqiVars, prVars, feVars>>
nonPrVars == <<fcVars, aqiVars, mlVars, feVars>>
nonFeVars == <<fcVars, aqiVars, mlVars, prVars>>

Callers == 1..NumCallers

\* ------------------------------------------------------------------------
\* ForecastService
\* ------------------------------------------------------------------------

\* What _fetch_weather_forecast can hand back: "ok" a well-formed body,
\* "malformed" a body that makes the merge raise, "None" after any error
\* (network error, timeout, non-success status, undecodable body).
WeatherOutcomes == {"ok", "malformed", "None"}
\* _fetch_aqi_forecast hands back the body or None.
AqiOutcomes == {"ok", "None"}
NoForecast == [body |-> "None", id |-> 0]

InFlight(i) == pc[i] \in {"locked", "waiting", "weather", "aqi"}

\* a freshness test with the comparison turned round
CacheFreshInverted == cache # NoneVal /\ (now - cache_time) > CACHE_TTL

\* forecast.py:56 and :61, the freshness condition
CacheFresh == cache # NoneVal /\ (now - cache_time) < CACHE_TTL

\* forecast.py:135-144 and :173-179, the keys of a daily and an hourly entry
\* built from the weather body
DailyKeys ==
    {"date", "temp_max", "temp_min", "temp_mean", "precipitation", "wind_max",
     "weather_code", "humidity"}
HourlyKeys == {"time", "temp", "humidity", "wind", "precip"}
\* forecast.py:147-160 and :182-185, the keys added under `if aqi:`
DailyAqiKeys == {"aqi_mean", "aqi_max", "pm25_mean"}
HourlyAqiKeys == {"aqi"}

\* a merge that writes the air-quality keys whether or not the body is there
MergeForecastsAlwaysAqi(w, a) ==
    [tag |-> "payload", weather |-> w, has_aqi |-> (a # "None"),
     daily |-> DailyKeys \cup DailyAqiKeys,
     hourly |-> HourlyKeys \cup HourlyAqiKeys,
     fetched_at |-> now]

\* _merge_forecasts: the payload built from one weather body and an optional
\* air-quality body. The daily and hourly air-quality fields exist only when
\* the air-quality body is there.
MergeForecasts(w, a) ==
    [tag |-> "payload", weather |-> w, has_aqi |-> (a # "None"),
     daily |-> DailyKeys \cup (IF a # "None" THEN DailyAqiKeys ELSE {}),
     hourly |-> HourlyKeys \cup (IF a # "None" THEN HourlyAqiKeys ELSE {}),
     fetched_at |-> now]

\* a lock that every caller finds free
LockFreeAlways == TRUE

\* async with self._lock, entering: asyncio.Lock is free when nobody holds it
LockFree == lockHolder = 0

\* a release that leaves the lock with the caller that held it
ReleaseKeepsHolder == lockHolder

\* forecast.py:39-43, _get_client: a missing or closed client is replaced by
\* an open one
GetClient(c) == IF c = "None" \/ c = "closed" THEN "open" ELSE c

\* forecast.py:45-48, the body of the coroutine close()
Close(c) == IF c # "None" /\ c # "closed" THEN "closed" ELSE c

\* async with self._lock, leaving: the lock goes to the first waiter
ReleaseTo == IF waiters = <<>> THEN 0 ELSE Head(waiters)

FcInit ==
    /\ cache = NoneVal
    /\ cache_time = 0
    /\ lockHolder = 0
    /\ waiters = <<>>
    /\ now = CACHE_TTL
    /\ ticks = 0
    /\ weatherFetches = 0
    /\ aqiFetches = 0
    /\ calls = 0
    /\ pc = [i \in Callers |-> "idle"]
    /\ ret = [i \in Callers |-> NoneVal]
    /\ forecast = [i \in Callers |-> NoForecast]
    /\ path = [i \in Callers |-> "none"]
    /\ cohort = [i \in Callers |-> {}]
    /\ fetchTime = [i \in Callers |-> 0]
    /\ merged_aqi = [i \in Callers |-> "not_merged"]
    /\ http_client = "None"
    /\ stopped = FALSE

\* get_forecast entered: lines 56-59
GetForecast(i) ==
    /\ pc[i] = "idle"
    /\ ~stopped
    /\ UNCHANGED nonFcVars
    /\ calls < MaxCalls
    /\ calls' = calls + 1
    /\ cohort' = [j \in Callers |->
                    IF j = i THEN {k \in Callers \ {i} : InFlight(k)}
                    ELSE IF InFlight(j) THEN cohort[j] \cup {i} ELSE cohort[j]]
    /\ IF CacheFresh
       THEN /\ pc' = [pc EXCEPT ![i] = "done"]
            /\ ret' = [ret EXCEPT ![i] = cache]
            /\ path' = [path EXCEPT ![i] = "fast"]
            /\ UNCHANGED <<lockHolder, waiters>>
       ELSE /\ ret' = ret
            /\ path' = [path EXCEPT ![i] = "none"]
            /\ IF LockFree
               THEN /\ lockHolder' = i
                    /\ pc' = [pc EXCEPT ![i] = "locked"]
                    /\ waiters' = waiters
               ELSE /\ waiters' = Append(waiters, i)
                    /\ pc' = [pc EXCEPT ![i] = "waiting"]
                    /\ lockHolder' = lockHolder
    /\ UNCHANGED <<cache, cache_time, now, ticks, weatherFetches, aqiFetches,
                   forecast, fetchTime, merged_aqi, http_client, stopped>>

\* lines 61-65: the re-check under the lock, then the weather request
Recheck(i) ==
    /\ pc[i] = "locked"
    /\ UNCHANGED nonFcVars
    /\ lockHolder = i
    /\ IF CacheFresh
       THEN /\ ret' = [ret EXCEPT ![i] = cache]
            /\ path' = [path EXCEPT ![i] = "recheck"]
            /\ lockHolder' = ReleaseTo
            /\ waiters' = IF waiters = <<>> THEN waiters ELSE Tail(waiters)
            /\ pc' = [j \in Callers |->
                        IF j = i THEN "done"
                        ELSE IF j = ReleaseTo THEN "locked" ELSE pc[j]]
            /\ UNCHANGED <<weatherFetches, fetchTime, http_client>>
       ELSE /\ pc' = [pc EXCEPT ![i] = "weather"]
            /\ path' = [path EXCEPT ![i] = "fetch"]
            /\ weatherFetches' = weatherFetches + 1
            /\ fetchTime' = [fetchTime EXCEPT ![i] = now]
            /\ http_client' = GetClient(http_client)
            /\ UNCHANGED <<ret, lockHolder, waiters>>
    /\ UNCHANGED <<cache, cache_time, now, ticks, aqiFetches, calls, forecast,
                   cohort, merged_aqi, stopped>>

\* line 65 returns, line 66 sends the air-quality request
WeatherReturns(i) ==
    /\ pc[i] = "weather"
    /\ UNCHANGED nonFcVars
    /\ \E w \in WeatherOutcomes :
         forecast' = [forecast EXCEPT ![i] =
                        [body |-> w, id |-> weatherFetches]]
    /\ pc' = [pc EXCEPT ![i] = "aqi"]
    /\ aqiFetches' = aqiFetches + 1
    /\ UNCHANGED <<cache, cache_time, lockHolder, waiters, now, ticks,
                   weatherFetches, calls, ret, path, cohort, fetchTime,
                   merged_aqi, http_client, stopped>>

\* a refresh that drops the cached entry when the fetch or the merge fails
RefreshOutcomeDropsCache(f, a) ==
    IF f.body = "ok"
    THEN [cache |-> MergeForecasts(f.id, a), cache_time |-> now,
          ret |-> MergeForecasts(f.id, a)]
    ELSE [cache |-> NoneVal, cache_time |-> 0, ret |-> NoneVal]

\* a refresh that clears the cached entry when the merge raises
RefreshOutcomeClearsOnError(f, a) ==
    IF f.body = "None"
    THEN [cache |-> cache, cache_time |-> cache_time, ret |-> cache]
    ELSE IF f.body = "malformed"
    THEN [cache |-> NoneVal, cache_time |-> 0, ret |-> NoneVal]
    ELSE [cache |-> MergeForecasts(f.id, a), cache_time |-> now,
          ret |-> MergeForecasts(f.id, a)]

\* What lines 68-80 do with the two fetch results: the new cache, its time and
\* the returned value.
RefreshOutcome(f, a) ==
    IF f.body = "None"
    THEN [cache |-> cache, cache_time |-> cache_time, ret |-> cache]
    ELSE IF f.body = "malformed"
    THEN [cache |-> cache, cache_time |-> cache_time, ret |-> cache]
    ELSE [cache |-> MergeForecasts(f.id, a), cache_time |-> now,
          ret |-> MergeForecasts(f.id, a)]

\* line 66 returns, lines 68-80 run, the lock is released
AqiReturns(i) ==
    /\ pc[i] = "aqi"
    /\ UNCHANGED nonFcVars
    /\ \E a \in AqiOutcomes :
         LET o == RefreshOutcome(forecast[i], a) IN
         /\ cache' = o.cache
         /\ cache_time' = o.cache_time
         /\ ret' = [ret EXCEPT ![i] = o.ret]
         /\ merged_aqi' = [merged_aqi EXCEPT ![i] =
                            IF forecast[i].body = "ok" THEN a
                            ELSE "not_merged"]
    /\ lockHolder' = ReleaseTo
    /\ waiters' = IF waiters = <<>> THEN waiters ELSE Tail(waiters)
    /\ pc' = [j \in Callers |->
                IF j = i THEN "done"
                ELSE IF j = ReleaseTo THEN "locked" ELSE pc[j]]
    /\ UNCHANGED <<now, ticks, weatherFetches, aqiFetches, calls, forecast,
                   path, cohort, fetchTime, http_client, stopped>>

\* the caller has taken the returned value and may call again
Return(i) ==
    /\ pc[i] = "done"
    /\ UNCHANGED nonFcVars
    /\ pc' = [pc EXCEPT ![i] = "idle"]
    /\ ret' = [ret EXCEPT ![i] = NoneVal]
    /\ forecast' = [forecast EXCEPT ![i] = NoForecast]
    /\ path' = [path EXCEPT ![i] = "none"]
    /\ cohort' = [cohort EXCEPT ![i] = {}]
    /\ fetchTime' = [fetchTime EXCEPT ![i] = 0]
    /\ merged_aqi' = [merged_aqi EXCEPT ![i] = "not_merged"]
    /\ UNCHANGED <<cache, cache_time, lockHolder, waiters, now, ticks,
                   weatherFetches, aqiFetches, calls, http_client, stopped>>

\* time.time() moves on
Tick ==
    /\ ticks < MaxTicks
    /\ UNCHANGED nonFcVars
    /\ ticks' = ticks + 1
    /\ now' = now + TickStep
    /\ UNCHANGED <<cache, cache_time, lockHolder, waiters, weatherFetches,
                   aqiFetches, calls, pc, ret, forecast, path, cohort,
                   fetchTime, merged_aqi, http_client, stopped>>

\* main.py:49, `prediction_service.forecast_service.close()`: the call of
\* the coroutine function is not awaited
CloseAwaited == FALSE

\* main.py:46-50, shutdown_event, run once the server has finished its
\* requests. Line 49 calls the coroutine function close() without awaiting
\* it: the call builds a coroutine object that is dropped, and the body of
\* close() never runs.
ShutdownEvent ==
    /\ ~stopped
    /\ \A i \in Callers : pc[i] \in {"idle", "done"}
    /\ UNCHANGED nonFcVars
    /\ stopped' = TRUE
    /\ http_client' = IF CloseAwaited THEN Close(http_client) ELSE http_client
    /\ UNCHANGED <<cache, cache_time, lockHolder, waiters, now, ticks,
                   weatherFetches, aqiFetches, calls, pc, ret, forecast, path,
                   cohort, fetchTime, merged_aqi>>

FcNext ==
    \/ \E i \in Callers : GetForecast(i)
    \/ \E i \in Callers : Recheck(i)
    \/ \E i \in Callers : WeatherReturns(i)
    \/ \E i \in Callers : AqiReturns(i)
    \/ \E i \in Callers : Return(i)
    \/ Tick

\* ------------------------------------------------------------------------
\* pm25_to_aqi
\* ------------------------------------------------------------------------

\* A float argument: NaN, or a concentration in hundredths of ug/m3.
Conc(x) == [nan |-> FALSE, c |-> x]
NaN == [nan |-> TRUE, c |-> 0]

\* round(): the nearest integer of num/den (den > 0, num >= 0), a tie going
\* to the even neighbour. The code rounds the float it computed, which at an
\* exact tie may lie a rounding error to either side.
RoundHalfEven(num, den) ==
    LET q == num \div den
        r == num % den
    IN  IF 2 * r > den THEN q + 1
        ELSE IF 2 * r < den THEN q
        ELSE IF q % 2 = 0 THEN q ELSE q + 1

\* the breakpoints as they were before the 2024 revision ("Good" up to 12.0)
BreakpointsPre2024 ==
    << <<0, 1200, 0, 50>>, <<1210, 3540, 51, 100>>, <<3550, 5540, 101, 150>>,
       <<5550, 15040, 151, 200>>, <<15050, 25040, 201, 300>>,
       <<25050, 35040, 301, 400>>, <<35050, 50040, 401, 500>> >>

\* ml_model.py:50-58: (c_low, c_high, i_low, i_high), concentrations in
\* hundredths of ug/m3
Breakpoints ==
    << <<0, 900, 0, 50>>, <<910, 3540, 51, 100>>, <<3550, 5540, 101, 150>>,
       <<5550, 12540, 151, 200>>, <<12550, 22540, 201, 300>>,
       <<22550, 32540, 301, 400>>, <<32550, 50040, 401, 500>> >>

\* the first bracket that holds c, 0 when none does (the for loop of line 59)
Bracket(c) ==
    LET hits == {k \in 1..Len(Breakpoints) :
                    Breakpoints[k][1] <= c /\ c <= Breakpoints[k][2]}
    IN  IF hits = {} THEN 0 ELSE CHOOSE k \in hits : \A m \in hits : k <= m

\* ml_model.py:41-63
pm25_to_aqi(pm25) ==
    IF pm25.nan \/ pm25.c < 0 THEN 0
    ELSE LET k == Bracket(pm25.c) IN
         IF k # 0
         THEN LET b == Breakpoints[k] IN
              RoundHalfEven((b[4] - b[3]) * (pm25.c - b[1])
                                + b[3] * (b[2] - b[1]),
                            b[2] - b[1])
         ELSE IF pm25.c > Breakpoints[Len(Breakpoints)][2] THEN 500 ELSE 0

\* the concentrations the calls are made with: every tenth of ug/m3 from
\* below zero to past the top breakpoint, and NaN
AqiInputs == {Conc(10 * k) : k \in -3..MaxConcTenths} \cup {NaN}

AqiRest ==
    /\ pm25_a = Conc(0) /\ pm25_b = Conc(0)
    /\ aqi_a = -1 /\ aqi_b = -1

\* two arguments: pm25_a from the grid, pm25_b up to MaxDelta hundredths above
AqiInit ==
    /\ pm25_a \in AqiInputs
    /\ \E d \in 0..MaxDelta :
         pm25_b = IF pm25_a.nan THEN pm25_a ELSE Conc(pm25_a.c + d)
    /\ aqi_a = -1 /\ aqi_b = -1

Convert ==
    /\ aqi_a = -1
    /\ aqi_a' = pm25_to_aqi(pm25_a)
    /\ aqi_b' = pm25_to_aqi(pm25_b)
    /\ UNCHANGED <<pm25_a, pm25_b>>
    /\ UNCHANGED nonAqiVars

AqiNext == Convert

\* ------------------------------------------------------------------------
\* SmartCityMLModel: training, persistence, inference
\* ------------------------------------------------------------------------

EmptyDict == [tag |-> "empty"]

\* an estimator or scaler object created by training run k
Estimator(k, fitted) ==
    [tag |-> "obj", run |-> k, fitted |-> fitted, damaged |-> FALSE]

\* self.metrics of run k: the held-out R2 of both models in hundredths, and
\* whether the cross-validation, seasonal and audit entries are there yet
Metrics(k, r2, full) ==
    [tag |-> "metrics", run |-> k, pm25_r2 |-> r2[1], traffic_r2 |-> r2[2],
     full |-> full, damaged |-> FALSE]

\* held-out R2 pairs (PM2.5, traffic) a training run can end with
R2Outcomes == {<<62, 45>>, <<70, 80>>}

\* ml_model.py:95-102
FreshModel ==
    [pm25_model |-> NoneVal, traffic_model |-> NoneVal, scaler |-> NoneVal,
     metrics |-> EmptyDict, is_trained |-> FALSE,
     feature_importance |-> EmptyDict, seasonal_diagnostics |-> EmptyDict]

\* ml_model.py:561-566, the artifacts in the order _save_models writes them
ArtifactNames == <<"pm25_model", "traffic_model", "scaler", "metrics">>
\* ml_model.py:585, the files load_models requires
RequiredFiles == {"pm25_model", "traffic_model", "scaler"}
\* ml_model.py:593-597, the files load_models verifies
VerifiedFiles == {"pm25_model", "traffic_model", "scaler"}
FileNames == {ArtifactNames[p] : p \in 1..Len(ArtifactNames)} \cup {"checksums"}

\* pickle.dump of an object: the bytes of the file. flips counts the bytes
\* changed after the write, torn marks a write that stopped partway.
File(obj) == [tag |-> "file", obj |-> obj, flips |-> 0, torn |-> FALSE]
\* ml_model.py:547-554, SHA-256 of the bytes: equal exactly for equal bytes
ComputeFileHash(f) == [sha |-> f]
\* ml_model.py:572-574, the checksum file
Manifest(sums) == [tag |-> "manifest", sums |-> sums, torn |-> FALSE]

EmptyDisk == [n \in FileNames |-> NoneVal]

\* ml_model.py:556-578. stop is the number of files written in full before
\* an exception ended the loop (5: none did); torn tells whether the file
\* being written at that moment was left partial. The exception is logged,
\* not raised.
SaveModels(m, dk, stop, torn) ==
    [n \in FileNames |->
        IF n = "checksums"
        THEN IF stop = 5
             THEN Manifest([a \in FileNames \ {"checksums"} |->
                               ComputeFileHash(File(m[a]))])
             ELSE IF stop = 4 /\ torn
             THEN [Manifest(<<>>) EXCEPT !.torn = TRUE]
             ELSE dk[n]
        ELSE LET p == CHOOSE q \in 1..Len(ArtifactNames) :
                          ArtifactNames[q] = n
             IN  IF p <= stop THEN File(m[n])
                 ELSE IF p = stop + 1 /\ torn
                 THEN [File(m[n]) EXCEPT !.torn = TRUE]
                 ELSE dk[n]]

\* pickle.load of a file: raises on a partial file, and on a file with a
\* changed byte unless the change still unpickles (unpickleOk)
LoadRaises(f, unpickleOk) == f.torn \/ (f.flips > 0 /\ ~unpickleOk)
Unpickle(f) == IF f.flips > 0 THEN [f.obj EXCEPT !.damaged = TRUE] ELSE f.obj

\* a checksum test that accepts every file
ChecksumsSkipped(dk) == TRUE

\* ml_model.py:587-603: TRUE when no verified file mismatches its checksum
ChecksumsOk(dk) ==
    \A n \in VerifiedFiles :
        n \in DOMAIN dk["checksums"].sums
            => ComputeFileHash(dk[n]) = dk["checksums"].sums[n]

\* ml_model.py:580-619: the instance after the call and the value returned
LoadModels(m, dk, sk, unpickleOk) ==
    IF ~sk THEN [ml |-> m, result |-> FALSE]
    ELSE IF \E n \in RequiredFiles : dk[n] = NoneVal
    THEN [ml |-> m, result |-> FALSE]
    ELSE IF dk["checksums"] # NoneVal /\ dk["checksums"].torn
    THEN [ml |-> m, result |-> FALSE]
    ELSE IF dk["checksums"] # NoneVal /\ ~ChecksumsOk(dk)
    THEN [ml |-> m, result |-> FALSE]
    ELSE IF LoadRaises(dk["pm25_model"], unpickleOk)
    THEN [ml |-> m, result |-> FALSE]
    ELSE LET m1 == [m EXCEPT !.pm25_model = Unpickle(dk["pm25_model"])] IN
    IF LoadRaises(dk["traffic_model"], unpickleOk)
    THEN [ml |-> m1, result |-> FALSE]
    ELSE LET m2 == [m1 EXCEPT !.traffic_model =
                                  Unpickle(dk["traffic_model"])] IN
    IF LoadRaises(dk["scaler"], unpickleOk)
    THEN [ml |-> m2, result |-> FALSE]
    ELSE LET m3 == [m2 EXCEPT !.scaler = Unpickle(dk["scaler"])] IN
    IF dk["metrics"] = NoneVal
    THEN [ml |-> [m3 EXCEPT !.is_trained = TRUE], result |-> TRUE]
    ELSE IF LoadRaises(dk["metrics"], unpickleOk)
    THEN [ml |-> m3, result |-> FALSE]
    ELSE [ml |-> [m3 EXCEPT !.metrics = Unpickle(dk["metrics"]),
                            !.is_trained = TRUE],
          result |-> TRUE]

\* the places where train can end with an exception, by what raises:
\* engineer (line 116), scaler_fit (156), transform (157-159), pm25_fit (171),
\* traffic_fit (189), cv (256-257); none: it runs to the end
FailPoints == {"none", "engineer", "scaler_fit", "transform", "pm25_fit",
               "traffic_fit", "cv"}

\* what can happen inside one train call: where it raises (failAt), the R2
\* it measures, how many files _save_models writes in full (stop) and
\* whether the next one is left partial (torn). A value that cannot matter
\* (the save of a run that raised, the R2 of a run that raised before
\* measuring it, a partial file after a complete save) takes one fixed value.
TrainInputs ==
    {x \in [failAt : FailPoints, r2 : R2Outcomes, stop : 0..5,
            torn : BOOLEAN] :
        /\ x.failAt # "none" => (x.stop = 5 /\ ~x.torn)
        /\ x.failAt \notin {"none", "cv"} => x.r2 = <<62, 45>>
        /\ x.stop = 5 => ~x.torn}

\* ml_model.py:155-274: the fields of the instance when train, on enough
\* rows, stops at failAt (or reaches _save_models)
TrainFields(m, k, r2, failAt) ==
    LET a == [m EXCEPT !.scaler = Estimator(k, FALSE)]          \* 155
        b == [a EXCEPT !.scaler = Estimator(k, TRUE)]           \* 156
        c == [b EXCEPT !.pm25_model = Estimator(k, FALSE)]      \* 162
        e == [c EXCEPT !.pm25_model = Estimator(k, TRUE)]       \* 171
        f == [e EXCEPT !.traffic_model = Estimator(k, FALSE)]   \* 181
        g == [f EXCEPT !.traffic_model = Estimator(k, TRUE),    \* 189
                       !.metrics = Metrics(k, r2, FALSE),       \* 193
                       !.feature_importance =
                            [tag |-> "importance", run |-> k],  \* 224
                       !.is_trained = TRUE]                     \* 236
        h == [g EXCEPT !.metrics = Metrics(k, r2, TRUE),        \* 258-274
                       !.seasonal_diagnostics =
                            [tag |-> "seasonal", run |-> k]]
    IN  CASE failAt = "engineer" -> m
          [] failAt = "scaler_fit" -> a
          [] failAt = "transform" -> b
          [] failAt = "pm25_fit" -> c
          [] failAt = "traffic_fit" -> f
          [] failAt = "cv" -> g
          [] OTHER -> h

\* a train that drops the model it holds before it returns an error value
TrainForgetsOnError(m, dk, sk, rows, k, failAt, r2, stop, torn, saved) ==
    IF ~sk
    THEN [ml |-> FreshModel, disk |-> dk, result |-> "error_sklearn",
          saved |-> saved]
    ELSE IF failAt = "engineer"
    THEN [ml |-> m, disk |-> dk, result |-> "raised", saved |-> saved]
    ELSE IF rows # "ok"
    THEN [ml |-> FreshModel, disk |-> dk, result |-> "error_insufficient",
          saved |-> saved]
    ELSE IF failAt # "none"
    THEN [ml |-> TrainFields(m, k, r2, failAt), disk |-> dk,
          result |-> "raised", saved |-> saved]
    ELSE LET n == TrainFields(m, k, r2, "none")
             d2 == SaveModels(n, dk, stop, torn)
         IN  [ml |-> n, disk |-> d2, result |-> "metrics",
              saved |-> IF stop = 5 THEN d2["checksums"].sums ELSE saved]

\* ml_model.py:104-286: train(df) as run k. rows: the state of df; failAt,
\* r2, stop, torn: what happens inside. Gives the instance, the disk, what
\* the caller gets (metrics, error_sklearn, error_insufficient, raised) and
\* the checksums written.
Train(m, dk, sk, rows, k, failAt, r2, stop, torn, saved) ==
    IF ~sk
    THEN [ml |-> m, disk |-> dk, result |-> "error_sklearn", saved |-> saved]
    ELSE IF failAt = "engineer"
    THEN [ml |-> m, disk |-> dk, result |-> "raised", saved |-> saved]
    ELSE IF rows # "ok"
    THEN [ml |-> m, disk |-> dk, result |-> "error_insufficient",
          saved |-> saved]
    ELSE IF failAt # "none"
    THEN [ml |-> TrainFields(m, k, r2, failAt), disk |-> dk,
          result |-> "raised", saved |-> saved]
    ELSE LET n == TrainFields(m, k, r2, "none")
             d2 == SaveModels(n, dk, stop, torn)
         IN  [ml |-> n, disk |-> d2, result |-> "metrics",
              saved |-> IF stop = 5 THEN d2["checksums"].sums ELSE saved]

\* ml_model.py:313-363: what an inference call uses, or how it ends
Inference(m, sk) ==
    IF ~m.is_trained \/ ~sk THEN [tag |-> "error"]
    ELSE IF m.scaler = NoneVal \/ m.pm25_model = NoneVal
            \/ m.traffic_model = NoneVal
    THEN [tag |-> "raised"]
    ELSE IF ~m.scaler.fitted \/ ~m.pm25_model.fitted
            \/ ~m.traffic_model.fitted
    THEN [tag |-> "raised"]
    ELSE [tag |-> "ok", scaler |-> m.scaler.run,
          pm25_model |-> m.pm25_model.run,
          traffic_model |-> m.traffic_model.run]

\* ml_model.py:621-628, get_info: the entries that depend on the instance
GetInfo(m, sk, dk) ==
    [is_trained |-> m.is_trained,
     sklearn_available |-> sk,
     metrics |-> m.metrics,
     feature_importance |-> m.feature_importance,
     seasonal_diagnostics |-> m.seasonal_diagnostics,
     model_files_exist |-> dk["pm25_model"] # NoneVal]

DfStates == {"none", "empty", "small", "ok"}

MlRest ==
    /\ ml = FreshModel
    /\ disk = EmptyDisk
    /\ sklearn = TRUE
    /\ dfState = "none"
    /\ phase = "serving"
    /\ runs = 0 /\ flips = 0 /\ restarts = 0
    /\ trainResult = "none" /\ loadResult = "none" /\ httpResult = "none"
    /\ manifestAtSave = NoneVal
    /\ lastInference = [tag |-> "none"]

\* a process about to run PredictionService.__init__: a new instance, an
\* empty MODEL_DIR
MlInit ==
    /\ ml = FreshModel
    /\ disk = EmptyDisk
    /\ sklearn \in BOOLEAN
    /\ dfState \in DfStates
    /\ phase = "init_load"
    /\ runs = 0 /\ flips = 0 /\ restarts = 0
    /\ trainResult = "none" /\ loadResult = "none" /\ httpResult = "none"
    /\ manifestAtSave = NoneVal
    /\ lastInference = [tag |-> "none"]

\* logic.py:57-59, _init_ml_model: load_models, then the choice to train
InitLoad ==
    /\ phase = "init_load"
    /\ UNCHANGED nonMlVars
    /\ \E unpickleOk \in BOOLEAN :
         LET r == LoadModels(ml, disk, sklearn, unpickleOk) IN
         /\ ml' = r.ml
         /\ loadResult' = IF r.result THEN "True" ELSE "False"
         /\ phase' = IF r.result THEN "serving"
                     ELSE IF dfState \in {"small", "ok"} THEN "init_train"
                     ELSE "serving"
    /\ UNCHANGED <<disk, sklearn, dfState, runs, flips, restarts, trainResult,
                   httpResult, manifestAtSave, lastInference>>

\* logic.py:59-69, _init_ml_model: train on the loaded data. An exception
\* leaves the constructor, and the process does not come up.
InitTrain ==
    /\ phase = "init_train"
    /\ UNCHANGED nonMlVars
    /\ runs < MaxRuns
    /\ runs' = runs + 1
    /\ \E x \in TrainInputs :
         LET r == Train(ml, disk, sklearn, dfState, runs + 1, x.failAt, x.r2,
                        x.stop, x.torn, manifestAtSave) IN
         /\ ml' = r.ml
         /\ disk' = r.disk
         /\ trainResult' = r.result
         /\ manifestAtSave' = r.saved
         /\ phase' = IF r.result = "raised" THEN "crashed" ELSE "serving"
    /\ UNCHANGED <<sklearn, dfState, flips, restarts, loadResult, httpResult,
                   lastInference>>

\* main.py:139-151, POST /model/retrain
Retrain ==
    /\ phase = "serving"
    /\ UNCHANGED nonMlVars
    /\ runs < MaxRuns
    /\ runs' = runs + 1
    /\ IF dfState = "none"
       THEN /\ httpResult' = "400"
            /\ UNCHANGED <<ml, disk, trainResult, manifestAtSave>>
       ELSE \E x \in TrainInputs :
              LET r == Train(ml, disk, sklearn, dfState, runs + 1, x.failAt,
                             x.r2, x.stop, x.torn, manifestAtSave) IN
              /\ ml' = r.ml
              /\ disk' = r.disk
              /\ trainResult' = r.result
              /\ manifestAtSave' = r.saved
              /\ httpResult' = IF r.result = "raised" THEN "500" ELSE "200"
    /\ UNCHANGED <<sklearn, dfState, phase, flips, restarts, loadResult,
                   lastInference>>

\* one byte of a persisted artifact changes behind the service
CorruptFile ==
    /\ phase \in {"serving", "crashed"}
    /\ UNCHANGED nonMlVars
    /\ flips < MaxFlips
    /\ flips' = flips + 1
    /\ \E n \in FileNames \ {"checksums"} :
         /\ disk[n] # NoneVal
         /\ disk' = [disk EXCEPT ![n].flips = @ + 1]
    /\ UNCHANGED <<ml, sklearn, dfState, phase, runs, restarts, trainResult,
                   loadResult, httpResult, manifestAtSave, lastInference>>

\* the process is started again, main.py:43 builds a new PredictionService,
\* and _load_data reads the data file, which is as it was or has been cut
\* down to fewer than 100 usable rows
Restart ==
    /\ phase \in {"serving", "crashed"}
    /\ UNCHANGED nonMlVars
    /\ restarts < MaxRestarts
    /\ restarts' = restarts + 1
    /\ ml' = FreshModel
    /\ phase' = "init_load"
    /\ trainResult' = "none" /\ loadResult' = "none" /\ httpResult' = "none"
    /\ lastInference' = [tag |-> "none"]
    /\ dfState' \in {dfState, "small"}
    /\ UNCHANGED <<disk, sklearn, runs, flips, manifestAtSave>>

MlNext ==
    \/ InitLoad
    \/ InitTrain
    \/ Retrain
    \/ CorruptFile
    \/ Restart

\* ------------------------------------------------------------------------
\* PredictionService.predict
\* ------------------------------------------------------------------------
\* Numbers are exact: temperatures, traffic indices and PM2.5 in tenths,
\* regressor outputs in hundredths, confidences in thousandths; a value that
\* is not a multiple of its unit is a fraction [n, d] in lowest terms.

\* an optional argument that was given
Some(x) == [tag |-> "some", v |-> x]

Abs(x) == IF x < 0 THEN -x ELSE x

RECURSIVE GCD(_, _)
GCD(a, b) == IF b = 0 THEN a ELSE GCD(b, a % b)

\* the fraction n/d (d # 0) in lowest terms with a positive denominator
Rat(n, d) ==
    LET g == GCD(Abs(n), Abs(d))
        s == IF d < 0 THEN -1 ELSE 1
    IN  [n |-> s * (n \div g), d |-> s * (d \div g)]

RatMul(a, b) == Rat(a.n * b.n, a.d * b.d)
RatLess(a, b) == a.n * b.d < b.n * a.d
RatMax(a, b) == IF RatLess(a, b) THEN b ELSE a
RatMin(a, b) == IF RatLess(b, a) THEN b ELSE a

RECURSIVE SeqSum(_)
SeqSum(s) == IF s = <<>> THEN 0 ELSE Head(s) + SeqSum(Tail(s))

\* count consecutive rows of the CSV with the same values
Group(count, month, temperature, aqi, traffic_index, pm25, is_weekend) ==
    [count |-> count, month |-> month, temperature |-> temperature,
     aqi |-> aqi, traffic_index |-> traffic_index, pm25 |-> pm25,
     is_weekend |-> is_weekend]

\* a DataFrame: its rows in file order, and whether it has a pm25 column
\* (a frame with the column has a value in every row)
Frame(has_pm25, rows) == [tag |-> "df", has_pm25 |-> has_pm25, rows |-> rows]

\* 60 January records averaging AQI 150, colder days dirtier, weekends calmer
JanuaryRows ==
    << Group(20, 1, -60, 160, 620, 700, FALSE),
       Group(10, 1, -60, 160, 480, 700, TRUE),
       Group(24, 1, -40, 140, 620, 500, FALSE),
       Group(6, 1, -40, 140, 480, 480, TRUE) >>
\* 25 April records, all at the same temperature
AprilRows == << Group(25, 4, 120, 80, 600, 200, FALSE) >>

\* 120 January records, the same days twice over
WinterRows ==
    << Group(40, 1, -60, 160, 620, 700, FALSE),
       Group(20, 1, -60, 160, 480, 700, TRUE),
       Group(48, 1, -40, 140, 620, 500, FALSE),
       Group(12, 1, -40, 140, 480, 480, TRUE) >>

\* what _load_data can have returned
Frames ==
    { NoneVal,
      Frame(TRUE, <<>>),
      Frame(TRUE, JanuaryRows),
      Frame(FALSE, JanuaryRows),
      Frame(TRUE, AprilRows) }

NRows(rows) == SeqSum([i \in 1..Len(rows) |-> rows[i].count])
ColSum(rows, col) ==
    SeqSum([i \in 1..Len(rows) |-> rows[i].count * rows[i][col]])
ProdSum(rows, c1, c2) ==
    SeqSum([i \in 1..Len(rows) |-> rows[i].count * rows[i][c1] * rows[i][c2]])
MonthRows(d, month) == SelectSeq(d.rows, LAMBDA g : g.month = month)
WeekendRows(rows, w) == SelectSeq(rows, LAMBDA g : g.is_weekend = w)

\* df.tail(k)
RECURSIVE TailRows(_, _)
TailRows(rows, k) ==
    IF k = 0 \/ rows = <<>> THEN <<>>
    ELSE LET g == rows[Len(rows)] IN
         IF g.count >= k THEN << [g EXCEPT !.count = k] >>
         ELSE TailRows(SubSeq(rows, 1, Len(rows) - 1), k - g.count) \o <<g>>

IsEmpty(d) == d.rows = <<>>

\* logic.py:97-137: month -> statistics, for the months that have rows
ComputeMonthlyStats(d) ==
    IF d = NoneVal THEN [m \in {} |-> 0]
    ELSE [m \in {d.rows[i].month : i \in 1..Len(d.rows)} |->
            LET r == MonthRows(d, m)
                n == NRows(r)
            IN  [temp_mean |-> RoundHalfEven(ColSum(r, "temperature"), n),
                 aqi_mean |-> RoundHalfEven(ColSum(r, "aqi"), n),
                 traffic_mean |-> RoundHalfEven(ColSum(r, "traffic_index"), n),
                 records |-> n,
                 pm25_mean |-> IF d.has_pm25
                               THEN Some(RoundHalfEven(ColSum(r, "pm25"), n))
                               ELSE NoneVal]]

\* logic.py:405-413: (i_low, i_high, c_low, c_high), concentrations in tenths
ReverseBreakpoints ==
    << <<0, 50, 0, 90>>, <<51, 100, 91, 354>>, <<101, 150, 355, 554>>,
       <<151, 200, 555, 1254>>, <<201, 300, 1255, 2254>>,
       <<301, 400, 2255, 3254>>, <<401, 500, 3255, 5004>> >>

\* logic.py:399-417
AqiToApproxPm25(aqi) ==
    LET hit == {k \in 1..Len(ReverseBreakpoints) :
                   ReverseBreakpoints[k][1] <= aqi
                       /\ aqi <= ReverseBreakpoints[k][2]}
    IN  IF hit # {}
        THEN LET b == ReverseBreakpoints[CHOOSE k \in hit :
                                            \A j \in hit : k <= j]
             IN  Rat(b[3] * (b[2] - b[1]) + (b[4] - b[3]) * (aqi - b[1]),
                     b[2] - b[1])
        ELSE IF aqi > 500 THEN Rat(2500, 1) ELSE Rat(50, 1)

\* ml_model.py:529-545, in thousandths; R2 in hundredths
EstimateConfidence(metrics, month, lag_available) ==
    LET pm25_r2 == IF metrics.tag = "metrics" THEN metrics.pm25_r2 ELSE 0
        traffic_r2 == IF metrics.tag = "metrics" THEN metrics.traffic_r2 ELSE 0
        base == 750
                + (IF pm25_r2 > 50 THEN 50 ELSE 0)
                + (IF pm25_r2 > 65 THEN 50 ELSE 0)
                + (IF traffic_r2 > 50 THEN 50 ELSE 0)
                + (IF month \in {1, 2, 7, 8, 12} THEN 30 ELSE 0)
                - (IF lag_available THEN 0 ELSE 100)
    IN  IF base > 950 THEN 950 ELSE IF base < 400 THEN 400 ELSE base

\* identity in place of the clamp
ClampOff(x, lo, hi) == x

Clamp(x, lo, hi) == IF x < lo THEN lo ELSE IF x > hi THEN hi ELSE x

\* logic.py:341-360: prev_pm25, avg_pm25_7d and lag_features_known
PollutantLags(d, stats, live_aqi) ==
    LET fallback == IF stats # NoneVal /\ stats.pm25_mean # NoneVal
                    THEN Rat(stats.pm25_mean.v, 1) ELSE Rat(250, 1)   \* 345
        live == live_aqi # NoneVal /\ live_aqi.v > 0                  \* 348
        csv == d # NoneVal /\ ~IsEmpty(d) /\ d.has_pm25               \* 355-357
        last == TailRows(IF d = NoneVal THEN <<>> ELSE d.rows, 7)
    IN  IF csv                                                       \* 358-360
        THEN [prev_pm25 |-> Rat(last[Len(last)].pm25, 1),
              avg_pm25_7d |-> Rat(ColSum(last, "pm25"), NRows(last)),
              lag_features_known |-> TRUE]
        ELSE IF live                                                 \* 350-352
        THEN [prev_pm25 |-> AqiToApproxPm25(live_aqi.v),
              avg_pm25_7d |-> AqiToApproxPm25(live_aqi.v),
              lag_features_known |-> TRUE]
        ELSE [prev_pm25 |-> fallback, avg_pm25_7d |-> fallback,
              lag_features_known |-> FALSE]

\* logic.py:362-368: prev_traffic and avg_traffic_7d
TrafficLags(d, stats, live_traffic) ==
    LET prev == IF live_traffic # NoneVal THEN Rat(live_traffic.v, 1)
                ELSE IF stats # NoneVal THEN Rat(stats.traffic_mean, 1)
                ELSE Rat(450, 1)
        last == TailRows(IF d = NoneVal THEN <<>> ELSE d.rows, 7)
    IN  [prev_traffic |-> prev,
         avg_traffic_7d |-> IF d # NoneVal /\ ~IsEmpty(d)
                            THEN Rat(ColSum(last, "traffic_index"),
                                     NRows(last))
                            ELSE prev]

\* ml_model.py:313-363 after the regressors returned pm25_raw and
\* traffic_raw (hundredths): the dict predict returns
\* a predict that returns what the regressors gave, without clamping
ModelOutputUnclamped(m, sk, month, lag_known, pm25_raw, traffic_raw) ==
    LET use == Inference(m, sk) IN
    IF use.tag # "ok" THEN [tag |-> use.tag]
    ELSE [tag |-> "ok",
          pm25_prediction |-> RoundHalfEven(Abs(pm25_raw), 10),
          aqi_prediction |-> pm25_to_aqi(Conc(Abs(pm25_raw))),
          traffic_prediction |-> RoundHalfEven(traffic_raw, 10),
          confidence |-> EstimateConfidence(m.metrics, month, lag_known),
          lag_features_available |-> lag_known]

ModelOutput(m, sk, month, lag_known, pm25_raw, traffic_raw) ==
    LET use == Inference(m, sk) IN
    IF use.tag # "ok" THEN [tag |-> use.tag]
    ELSE [tag |-> "ok",
          pm25_prediction |-> RoundHalfEven(Clamp(pm25_raw, 0, 50000), 10),
          aqi_prediction |-> pm25_to_aqi(Conc(Clamp(pm25_raw, 0, 50000))),
          traffic_prediction |->
              RoundHalfEven(Clamp(traffic_raw, 0, 10000), 10),
          confidence |-> EstimateConfidence(m.metrics, month, lag_known),
          lag_features_available |-> lag_known]

\* a _ml_predict that calls the regressors whatever the model's state
MlPredictUnguarded(m, sk, d, ms, r, temperature, pm25_raw, traffic_raw) ==
    [args |-> NoneVal,
     result |-> [tag |-> "ok",
                 pm25_prediction |->
                     RoundHalfEven(Clamp(pm25_raw, 0, 50000), 10),
                 aqi_prediction |->
                     pm25_to_aqi(Conc(Clamp(pm25_raw, 0, 50000))),
                 traffic_prediction |->
                     RoundHalfEven(Clamp(traffic_raw, 0, 10000), 10),
                 confidence |-> 750,
                 lag_features_available |-> FALSE]]

\* logic.py:325-397 for request r and effective temperature: the keyword
\* arguments handed to ml_model.predict (None when it is not called) and
\* what comes back
MlPredict(m, sk, d, ms, r, temperature, pm25_raw, traffic_raw) ==
    IF ~m.is_trained \/ temperature = NoneVal
    THEN [args |-> NoneVal, result |-> NoneVal]
    ELSE LET month == r.month
             stats == IF month \in DOMAIN ms THEN ms[month] ELSE NoneVal
             pl == PollutantLags(d, stats, r.live_aqi)
             tl == TrafficLags(d, stats, r.live_traffic)
         IN  [args |-> [tag |-> "args", temperature |-> temperature.v,
                        month |-> month,
                        prev_pm25 |-> pl.prev_pm25,
                        avg_pm25_7d |-> pl.avg_pm25_7d,
                        prev_traffic |-> tl.prev_traffic,
                        avg_traffic_7d |-> tl.avg_traffic_7d,
                        lag_features_known |-> pl.lag_features_known],
              result |-> ModelOutput(m, sk, month, pl.lag_features_known,
                                     pm25_raw, traffic_raw)]

\* logic.py:445-455: the monthly mean AQI moved along the regression of AQI
\* on temperature, and whether the move was made
TemperatureAdjusted(d, stats, month, temperature) ==
    LET r == IF d = NoneVal THEN <<>> ELSE MonthRows(d, month)
        n == NRows(r)
        st == ColSum(r, "temperature")
        sa == ColSum(r, "aqi")
        p == n * ProdSum(r, "temperature", "aqi") - st * sa
        q == n * ProdSum(r, "temperature", "temperature") - st * st
    IN  IF temperature # NoneVal /\ d # NoneVal /\ n > 10 /\ q > 0
        THEN LET slope == Rat(p, q) IN
             [base_aqi |-> Rat(stats.aqi_mean * slope.d * n
                                   + slope.n * (n * temperature.v - st),
                               slope.d * n),
              adjusted |-> TRUE]
        ELSE [base_aqi |-> Rat(stats.aqi_mean, 1), adjusted |-> FALSE]

\* logic.py:457-463
WeekendScaled(d, stats, month, is_weekend) ==
    LET r == IF d = NoneVal THEN <<>> ELSE MonthRows(d, month)
        we == WeekendRows(r, TRUE)
        wd == WeekendRows(r, FALSE)
    IN  IF is_weekend /\ d # NoneVal /\ we # <<>> /\ wd # <<>>
        THEN RatMul(Rat(stats.traffic_mean, 1),
                    RatMul(Rat(ColSum(we, "traffic_index"), NRows(we)),
                           LET m == RatMax(Rat(ColSum(wd, "traffic_index"),
                                               NRows(wd)),
                                           Rat(10, 1))
                           IN  Rat(m.d, m.n)))
        ELSE Rat(stats.traffic_mean, 1)

\* logic.py:442, 455, 467 in thousandths
StatConfidence(n, adjusted) ==
    LET c == IF 550 + 2 * n > 920 THEN 920 ELSE 550 + 2 * n
        b == IF adjusted THEN c + 30 ELSE c
    IN  IF b > 950 THEN 950 ELSE b

\* logic.py:421-469: (aqi, traffic, confidence)
PredictFromData(d, ms, month, temperature, is_weekend) ==
    IF month \notin DOMAIN ms
    THEN IF d # NoneVal /\ ~IsEmpty(d)
         THEN [aqi |-> ColSum(d.rows, "aqi") \div NRows(d.rows),
               traffic |-> Rat(ColSum(d.rows, "traffic_index"),
                               NRows(d.rows)),
               confidence |-> 500]
         ELSE [aqi |-> 80, traffic |-> Rat(550, 1), confidence |-> 300]
    ELSE LET stats == ms[month]
             t == TemperatureAdjusted(d, stats, month, temperature)
             tr == WeekendScaled(d, stats, month, is_weekend)
         IN  [aqi |-> Clamp(RoundHalfEven(t.base_aqi.n, t.base_aqi.d),
                            0, 500),
              traffic |-> RatMax(Rat(0, 1), RatMin(Rat(1000, 1), tr)),
              confidence |-> StatConfidence(stats.records, t.adjusted)]

\* the blend with the two weights exchanged
BlendSwapped(mr, st) ==
    [aqi_prediction |->
         Clamp(RoundHalfEven(3 * mr.aqi_prediction + 7 * st.aqi, 10), 0, 500),
     traffic_prediction |->
         Clamp(RoundHalfEven(3 * mr.traffic_prediction * st.traffic.d
                                 + 7 * st.traffic.n,
                             10 * st.traffic.d), 0, 1000),
     confidence |-> IF mr.confidence > st.confidence
                    THEN (IF mr.confidence > 950 THEN 950 ELSE mr.confidence)
                    ELSE (IF st.confidence > 950 THEN 950 ELSE st.confidence)]

\* logic.py:266-268, 277-278: ML_WEIGHT 0.70, STAT_WEIGHT 0.30
Blend(mr, st) ==
    [aqi_prediction |->
         Clamp(RoundHalfEven(7 * mr.aqi_prediction + 3 * st.aqi, 10), 0, 500),
     traffic_prediction |->
         Clamp(RoundHalfEven(7 * mr.traffic_prediction * st.traffic.d
                                 + 3 * st.traffic.n,
                             10 * st.traffic.d), 0, 1000),
     confidence |-> IF mr.confidence > st.confidence
                    THEN (IF mr.confidence > 950 THEN 950 ELSE mr.confidence)
                    ELSE (IF st.confidence > 950 THEN 950 ELSE st.confidence)]

\* the requests: the month and weekday of the date, and the optional fields
Requests ==
    [month : {1, 4, 7}, is_weekend : BOOLEAN,
     temperature : {NoneVal, Some(0), Some(150)},
     live_temp : {NoneVal, Some(-50)},
     live_aqi : {NoneVal, Some(0), Some(120)},
     live_traffic : {NoneVal, Some(700)},
     query : BOOLEAN]
NoRequest ==
    [month |-> 1, is_weekend |-> FALSE, temperature |-> NoneVal,
     live_temp |-> NoneVal, live_aqi |-> NoneVal, live_traffic |-> NoneVal,
     query |-> FALSE]

\* what the two regressors can return, in hundredths
Pm25Outputs == {3540, 905, 51234, -120}
TrafficOutputs == {5000, 10250}
\* the pairs one predict request draws from: the congestion regressor
\* leaves its range only together with the pollutant regressor
RegressorOutputs ==
    {o \in Pm25Outputs \X TrafficOutputs : o[2] = 10250 => o[1] = 51234}

\* logic.py:230-233
EffectiveTemp(r, ms) ==
    IF r.live_temp # NoneVal THEN r.live_temp
    ELSE IF r.temperature # NoneVal THEN r.temperature
    ELSE IF r.month \in DOMAIN ms THEN Some(ms[r.month].temp_mean)
    ELSE NoneVal

NoLocals == [tag |-> "none"]

PrRest ==
    /\ df = NoneVal
    /\ monthly_stats = ComputeMonthlyStats(NoneVal)
    /\ groq_client = FALSE
    /\ req = NoRequest
    /\ prpc = "idle"
    /\ loc = NoLocals
    /\ response = NoneVal
    /\ served = 0

\* PredictionService after __init__ (logic.py:38-53)
PrInit ==
    /\ df \in Frames
    /\ monthly_stats = ComputeMonthlyStats(df)
    /\ groq_client \in BOOLEAN
    /\ req = NoRequest
    /\ prpc = "idle"
    /\ loc = NoLocals
    /\ response = NoneVal
    /\ served = 0

\* the model a serving process can hold: untrained, or trained by one run
MlServing ==
    /\ ml \in {FreshModel}
              \cup {TrainFields(FreshModel, 1, r2, "none") : r2 \in R2Outcomes}
    /\ disk = EmptyDisk
    /\ sklearn = TRUE
    /\ dfState = "none"
    /\ phase = "serving"
    /\ runs = 0 /\ flips = 0 /\ restarts = 0
    /\ trainResult = "none" /\ loadResult = "none" /\ httpResult = "none"
    /\ manifestAtSave = NoneVal
    /\ lastInference = [tag |-> "none"]

\* what the text generator can do once it is invoked
GroqOutcomes == {"text", "raises", "times_out"}

\* logic.py:614-745, _get_groq_prediction_v2: the text, or None when anything
\* inside it raised
GroqPrediction(outcome) == IF outcome = "text" THEN "text" ELSE "None"

\* logic.py:618: the temperature written into the prompt
TempStr(temperature) ==
    IF temperature # NoneVal /\ temperature.v # 0
    THEN [tag |-> "degrees", v |-> temperature.v]
    ELSE [tag |-> "unknown"]

\* the flag of a response that looks only at whether a client is configured
IsMockClientOnly(client, query, groq_text) == ~client

\* logic.py:287-312: is_mock from the client, the query and what the
\* generator call returned
IsMock(client, query, groq_text) ==
    IF client /\ query THEN groq_text = "None" ELSE ~client

\* logic.py:287-311: which text goes into the response
PredictionText(client, query, groq_text) ==
    IF client /\ query /\ groq_text # "None"
    THEN "groq_text" ELSE "base_insight"

\* the models a serving process can hold: none, one trained by run 1, and
\* what a second run leaves of either when it stops at any point
ModelStates ==
    {TrainFields(m, 2, r2, f) :
        m \in {FreshModel, TrainFields(FreshModel, 1, <<62, 45>>, "none")},
        r2 \in R2Outcomes, f \in FailPoints}
    \cup {FreshModel}

\* a serving process about to get calls of SmartCityMLModel.predict
InferInit ==
    /\ ml \in ModelStates
    /\ disk = EmptyDisk
    /\ sklearn = TRUE
    /\ dfState = "none"
    /\ phase = "serving"
    /\ runs = 0 /\ flips = 0 /\ restarts = 0
    /\ trainResult = "none" /\ loadResult = "none" /\ httpResult = "none"
    /\ manifestAtSave = NoneVal
    /\ lastInference = [tag |-> "none"]

\* ml_model.py:288-363: one call of SmartCityMLModel.predict. Kept of it:
\* which artifacts it used, what the regressors gave (hundredths), and the
\* dict it returned.
Infer ==
    /\ phase = "serving"
    /\ UNCHANGED nonMlVars
    /\ \E month \in {1, 4}, lag_known \in BOOLEAN, pm25_raw \in Pm25Outputs,
          traffic_raw \in TrafficOutputs :
         LET use == Inference(ml, sklearn) IN
         lastInference' =
             [tag |-> "call",
              use |-> use,
              regressors |-> IF use.tag = "ok"
                             THEN <<pm25_raw, traffic_raw>> ELSE <<>>,
              result |-> ModelOutput(ml, sklearn, month, lag_known,
                                     pm25_raw, traffic_raw)]
    /\ UNCHANGED <<ml, disk, sklearn, dfState, phase, runs, flips, restarts,
                   trainResult, loadResult, httpResult, manifestAtSave>>

InferNext == Infer

\* logic.py:857-863, _get_reasoning_v2: the R2 values quoted in the reasoning
\* text, read from the model's metrics when the text is composed
ReasoningAccuracy(ml_result, metrics) ==
    IF ml_result # NoneVal /\ ml_result.tag = "ok" /\ metrics # EmptyDict
    THEN Some(<<metrics.pm25_r2, metrics.traffic_r2>>)
    ELSE NoneVal

\* the response of logic.py:314-321: the text chosen, the numbers, the method
\* named in the reasoning (logic.py:852) and the flag
Response(l, m, client, query, groq_text) ==
    [tag |-> "response",
     prediction |-> PredictionText(client, query, groq_text),
     confidence_score |-> RoundHalfEven(l.confidence, 10),
     aqi_prediction |-> l.aqi_prediction,
     traffic_index_prediction |->
         RoundHalfEven(l.traffic_prediction.n, l.traffic_prediction.d),
     reasoning_method |-> l.method,
     reasoning_accuracy |-> ReasoningAccuracy(l.ml_result, m.metrics),
     is_mock |-> IsMock(client, query, groq_text)]

\* logic.py:212-278: predict from its call to the await of get_forecast
PredictStart ==
    /\ prpc = "idle"
    /\ UNCHANGED nonPrVars
    /\ served < MaxRequests
    /\ \E r \in Requests :
         LET et == EffectiveTemp(r, monthly_stats)
             st == PredictFromData(df, monthly_stats, r.month, et,
                                   r.is_weekend)
             stat == [tag |-> "locals",
                      effective_temp |-> et,
                      ml_args |-> NoneVal,
                      ml_result |-> NoneVal,
                      ml_metrics |-> NoneVal,
                      stat_aqi |-> st.aqi,
                      stat_traffic |-> st.traffic,
                      stat_confidence |-> st.confidence,
                      aqi_prediction |-> Clamp(st.aqi, 0, 500),
                      traffic_prediction |->
                          RatMax(Rat(0, 1), RatMin(Rat(1000, 1), st.traffic)),
                      confidence |-> st.confidence,
                      method |-> "stat",
                      temp_str |-> [tag |-> "unset"],
                      groq_call |-> "not_called"]
         IN  /\ req' = r
             /\ \E o \in RegressorOutputs :
                  LET pm25_raw == o[1]
                      traffic_raw == o[2]
                      mp == MlPredict(ml, sklearn, df, monthly_stats, r, et,
                                      pm25_raw, traffic_raw)
                  IN  IF mp.result = NoneVal
                      THEN /\ prpc' = "forecast"
                           /\ loc' = stat
                      ELSE IF mp.result.tag = "raised"
                      THEN /\ prpc' = "raised"
                           /\ loc' = [tag |-> "raised", ml_args |-> mp.args]
                      ELSE IF mp.result.tag = "error"
                      THEN /\ prpc' = "forecast"
                           /\ loc' = [stat EXCEPT !.ml_args = mp.args,
                                                  !.ml_result = mp.result]
                      ELSE LET b == Blend(mp.result, st) IN
                           /\ prpc' = "forecast"
                           /\ loc' =
                                [stat EXCEPT
                                   !.ml_args = mp.args,
                                   !.ml_result = mp.result,
                                   !.ml_metrics = ml.metrics,
                                   !.aqi_prediction = b.aqi_prediction,
                                   !.traffic_prediction =
                                       Rat(b.traffic_prediction, 1),
                                   !.confidence = b.confidence,
                                   !.method = "ml"]
    /\ UNCHANGED <<df, monthly_stats, groq_client, response, served>>

\* logic.py:281-312: get_forecast has returned. With a client and a query
\* the prompt is composed and the generator is called (logic.py:614-724);
\* otherwise the response is built at once.
ForecastReturns ==
    /\ prpc = "forecast"
    /\ UNCHANGED nonPrVars
    /\ IF groq_client /\ req.query
       THEN /\ prpc' = "groq"
            /\ loc' = [loc EXCEPT !.temp_str = TempStr(loc.effective_temp)]
            /\ UNCHANGED response
       ELSE /\ prpc' = "done"
            /\ response' = Response(loc, ml, groq_client, req.query, "None")
            /\ UNCHANGED loc
    /\ UNCHANGED <<df, monthly_stats, groq_client, req, served>>

\* logic.py:288-321: the generator call has ended and the response is built
GroqReturns ==
    /\ prpc = "groq"
    /\ UNCHANGED nonPrVars
    /\ \E outcome \in GroqOutcomes :
         /\ loc' = [loc EXCEPT !.groq_call = outcome]
         /\ response' = Response(loc, ml, groq_client, req.query,
                                 GroqPrediction(outcome))
    /\ prpc' = "done"
    /\ UNCHANGED <<df, monthly_stats, groq_client, req, served>>

\* the response, or the exception, has gone to the caller
Deliver ==
    /\ prpc \in {"done", "raised"}
    /\ UNCHANGED nonPrVars
    /\ prpc' = "idle"
    /\ req' = NoRequest
    /\ loc' = NoLocals
    /\ response' = NoneVal
    /\ served' = served + 1
    /\ UNCHANGED <<df, monthly_stats, groq_client>>

\* main.py:139-151 run by the event loop while a predict request is
\* suspended at one of its awaits (logic.py:281, :288)
RetrainWhileSuspended ==
    /\ prpc \in {"forecast", "groq"}
    /\ Retrain

\* a service holding 120 records and the model its first run trained
InterleaveInit ==
    /\ df = Frame(TRUE, WinterRows)
    /\ monthly_stats = ComputeMonthlyStats(df)
    /\ groq_client \in BOOLEAN
    /\ req = NoRequest
    /\ prpc = "idle"
    /\ loc = NoLocals
    /\ response = NoneVal
    /\ served = 0
    /\ ml = TrainFields(FreshModel, 1, <<62, 45>>, "none")
    /\ disk = EmptyDisk
    /\ sklearn = TRUE
    /\ dfState = "ok"
    /\ phase = "serving"
    /\ runs = 1 /\ flips = 0 /\ restarts = 0
    /\ trainResult = "metrics" /\ loadResult = "False" /\ httpResult = "none"
    /\ manifestAtSave = NoneVal
    /\ lastInference = [tag |-> "none"]

InterleaveNext ==
    \/ PredictStart
    \/ ForecastReturns
    \/ GroqReturns
    \/ Deliver
    \/ RetrainWhileSuspended

PrNext ==
    \/ PredictStart
    \/ ForecastReturns
    \/ GroqReturns
    \/ Deliver

\* ------------------------------------------------------------------------
\* SmartCityMLModel._engineer_features and the split made by train
\* ------------------------------------------------------------------------

\* a missing value of a pandas column
NullCell == [tag |-> "NaN"]
\* the value v that came from row number row of the source column
Cell(row, v) == [tag |-> "cell", row |-> row, v |-> v]
CellValues == {10, 30}

\* the columns of 1..MaxSeriesLen rows, each cell knowing its row
Columns ==
    UNION {[1..n -> CellValues] : n \in 1..MaxSeriesLen}

\* a shift that moves nothing
ShiftNone(s) == [i \in 1..Len(s) |-> Cell(i, s[i])]

\* ml_model.py:398-400, Series.shift(1): every value one row later, the
\* first row left missing
Shift(s) ==
    [i \in 1..Len(s) |-> IF i = 1 THEN NullCell ELSE Cell(i - 1, s[i - 1])]

\* ml_model.py:406-408, rolling(window=7, min_periods=1).mean() at row i of
\* the shifted column t: the mean of the values present among rows i-6..i of
\* t, missing when none is; rows names the source rows it read
RollingMean(t, i) ==
    LET w == {j \in 1..Len(t) : j >= i - 6 /\ j <= i /\ t[j] # NullCell}
        total == SeqSum([j \in 1..Len(t) |-> IF j \in w THEN t[j].v ELSE 0])
    IN  IF w = {} THEN NullCell
        ELSE [tag |-> "mean", mean |-> Rat(total, Cardinality(w)),
              rows |-> {t[j].row : j \in w}]

\* ml_model.py:397-408 for one source column, and the rows that
\* dropna(subset=FEATURE_COLS + ...) of ml_model.py:128 keeps
EngineerFeatures(s) ==
    LET t == Shift(s)
        lag1 == t
        rolling7 == [i \in 1..Len(s) |-> RollingMean(t, i)]
    IN  [tag |-> "features", lag1 |-> lag1, rolling7 |-> rolling7,
         kept |-> {i \in 1..Len(s) :
                     lag1[i] # NullCell /\ rolling7[i] # NullCell}]

FeRest ==
    /\ column = <<>>
    /\ df_feat = NoneVal
    /\ n_total = 0
    /\ n_interp = 0
    /\ splits = NoneVal

FeInit ==
    /\ column \in Columns
    /\ df_feat = NoneVal
    /\ n_total = 0
    /\ n_interp = 0
    /\ splits = NoneVal

\* one call of _engineer_features (ml_model.py:365-417)
Engineer ==
    /\ df_feat = NoneVal
    /\ UNCHANGED nonFeVars
    /\ df_feat' = EngineerFeatures(column)
    /\ UNCHANGED <<column, n_total, n_interp, splits>>

FeNext == Engineer

\* rows a..b of a frame, as the sequence of their numbers
RowRange(a, b) == [i \in 1..(IF b >= a THEN b - a + 1 ELSE 0) |-> a + i - 1]
RowSet(q) == {q[i] : i \in 1..Len(q)}

\* ml_model.py:116-159 on a frame of n rows in date order whose first interp
\* rows are flagged is_interpolated. Row 1 has no lag features and is dropped
\* from both sets (line 128-129); the PM2.5 set also leaves out the flagged
\* rows (line 123). Both sets are cut at int(len * 0.8) and the scaler is
\* fitted by fit_transform on the first part of the PM2.5 set (line 156).
SplitAndFit(n, interp) ==
    LET traffic_all == RowRange(2, n)
        pm25_rows == RowRange(IF interp >= 1 THEN interp + 1 ELSE 2, n)
        split_pm25 == (Len(pm25_rows) * 8) \div 10
        split_traffic == (Len(traffic_all) * 8) \div 10
    IN  IF Len(traffic_all) < 100 THEN [tag |-> "error"]
        ELSE [tag |-> "split",
              scaler_fit |-> RowSet(SubSeq(pm25_rows, 1, split_pm25)),
              pm25_train |-> RowSet(SubSeq(pm25_rows, 1, split_pm25)),
              pm25_test |->
                  RowSet(SubSeq(pm25_rows, split_pm25 + 1, Len(pm25_rows))),
              traffic_train |->
                  RowSet(SubSeq(traffic_all, 1, split_traffic)),
              traffic_test |->
                  RowSet(SubSeq(traffic_all, split_traffic + 1,
                                Len(traffic_all)))]

SplitInit ==
    /\ column = <<>>
    /\ df_feat = NoneVal
    /\ n_total \in MinRows..MaxRows
    /\ n_interp \in 0..MaxInterp
    /\ splits = NoneVal

\* train up to the fitting of the scaler
Split ==
    /\ splits = NoneVal
    /\ n_total > 0
    /\ UNCHANGED nonFeVars
    /\ splits' = SplitAndFit(n_total, n_interp)
    /\ UNCHANGED <<column, df_feat, n_total, n_interp>>

SplitNext == Split

\* ------------------------------------------------------------------------
\* Specifications
\* ------------------------------------------------------------------------

InitForecast == FcInit /\ AqiRest /\ MlRest /\ PrRest /\ FeRest
SpecForecast == InitForecast /\ [][FcNext]_vars

\* the service together with the application's shutdown
ShutdownNext ==
    \/ \E i \in Callers : GetForecast(i)
    \/ \E i \in Callers : Recheck(i)
    \/ \E i \in Callers : WeatherReturns(i)
    \/ \E i \in Callers : AqiReturns(i)
    \/ \E i \in Callers : Return(i)
    \/ Tick
    \/ ShutdownEvent
InitShutdown == FcInit /\ AqiRest /\ MlRest /\ PrRest /\ FeRest
SpecShutdown == InitShutdown /\ [][ShutdownNext]_vars

InitAqi == AqiInit /\ FcInit /\ MlRest /\ PrRest /\ FeRest
SpecAqi == InitAqi /\ [][AqiNext]_vars

InitModel == MlInit /\ FcInit /\ AqiRest /\ PrRest /\ FeRest
SpecModel == InitModel /\ [][MlNext]_vars

InitPredict == PrInit /\ MlServing /\ FcInit /\ AqiRest /\ FeRest
InitInterleave == InterleaveInit /\ FcInit /\ AqiRest /\ FeRest
SpecInterleave == InitInterleave /\ [][InterleaveNext]_vars
SpecPredict == InitPredict /\ [][PrNext]_vars

InitFeatures == FeInit /\ FcInit /\ AqiRest /\ MlRest /\ PrRest
SpecFeatures == InitFeatures /\ [][FeNext]_vars

InitSplit == SplitInit /\ FcInit /\ AqiRest /\ MlRest /\ PrRest
SpecSplit == InitSplit /\ [][SplitNext]_vars

InitInfer == InferInit /\ FcInit /\ AqiRest /\ PrRest /\ FeRest
SpecInfer == InitInfer /\ [][InferNext]_vars

\* ------------------------------------------------------------------------
\* Properties of the forecast cache
\* ------------------------------------------------------------------------

\* C1: when the cache is stale and several get_forecast calls are in flight
\* together, only one of them fetches for that expiry: two calls that
\* overlapped never both start a fetch at the same clock reading, whatever
\* the provider answered.
C1_OneRefreshPerExpiry ==
    \A i, j \in Callers :
        (i # j /\ path[i] = "fetch" /\ path[j] = "fetch"
               /\ j \in cohort[i] /\ i \in cohort[j])
            => fetchTime[i] # fetchTime[j]

\* C2: a refresh that fails (the weather fetch gave nothing, or the merge
\* raised) leaves _cache and _cache_time as they were, returns normally and
\* hands the caller the previously cached payload (None if there was none).
C2_FailedRefreshIsNoOp ==
    [][\A i \in Callers :
         (pc[i] = "aqi" /\ pc'[i] # "aqi" /\ forecast[i].body # "ok")
            => /\ pc'[i] = "done"
               /\ cache' = cache
               /\ cache_time' = cache_time
               /\ ret'[i] = cache]_vars

\* C2 witness: a call whose refresh failed has returned the stale entry.
C2_Witness ==
    \E i \in Callers :
        /\ pc[i] = "done" /\ path[i] = "fetch"
        /\ forecast[i].body # "ok"
        /\ cache # NoneVal /\ (now - cache_time) >= CACHE_TTL
        /\ ret[i] = cache

\* C3: a call that finds an entry younger than CACHE_TTL returns that entry
\* at once: it does not touch the lock and sends no request to the provider.
C3_FreshHitNoFetch ==
    [][\A i \in Callers :
         (pc[i] = "idle" /\ pc'[i] # "idle"
            /\ cache # NoneVal /\ (now - cache_time) < CACHE_TTL)
            => /\ pc'[i] = "done"
               /\ ret'[i] = cache
               /\ cache' = cache /\ cache_time' = cache_time
               /\ lockHolder' = lockHolder /\ waiters' = waiters
               /\ weatherFetches' = weatherFetches
               /\ aqiFetches' = aqiFetches]_vars

\* C3 witness: after one successful fetch a later call was served from the
\* cache and the provider has still been asked only once.
C3_Witness ==
    \E i \in Callers :
        /\ pc[i] = "done" /\ path[i] = "fast"
        /\ cache # NoneVal /\ ret[i] = cache
        /\ weatherFetches = 1 /\ aqiFetches = 1


\* ------------------------------------------------------------------------
\* Properties of pm25_to_aqi
\* ------------------------------------------------------------------------

\* C6: pm25_to_aqi is monotonic non-decreasing over every non-negative
\* concentration: c1 <= c2 implies pm25_to_aqi(c1) <= pm25_to_aqi(c2).
C6_Monotonic ==
    (aqi_a # -1 /\ ~pm25_a.nan /\ ~pm25_b.nan
        /\ 0 <= pm25_a.c /\ pm25_a.c <= pm25_b.c)
        => aqi_a <= aqi_b

\* C7: the result is the interpolated index rounded to the nearest integer:
\* 50 for 9.0, 100 for 35.4, 0 for 0 and for a negative concentration, 500
\* above 500.4, and always an integer in 0..500.
C7_Values ==
    aqi_a # -1 =>
        /\ aqi_a \in 0..500
        /\ (pm25_a = Conc(900) => aqi_a = 50)
        /\ (pm25_a = Conc(3540) => aqi_a = 100)
        /\ (pm25_a = Conc(0) => aqi_a = 0)
        /\ ((~pm25_a.nan /\ pm25_a.c < 0) => aqi_a = 0)
        /\ ((~pm25_a.nan /\ pm25_a.c > 50040) => aqi_a = 500)
        /\ \A k \in 1..Len(Breakpoints) :
              LET b == Breakpoints[k] IN
              (~pm25_a.nan /\ b[1] <= pm25_a.c /\ pm25_a.c <= b[2]) =>
                LET num == (b[4] - b[3]) * (pm25_a.c - b[1])
                    off == (aqi_a - b[3]) * (b[2] - b[1])
                IN  2 * (off - num) <= b[2] - b[1]
                    /\ 2 * (num - off) <= b[2] - b[1]

\* C7 witness: 35.4 has been converted to 100.
C7_Witness == pm25_a = Conc(3540) /\ aqi_a = 100

\* ------------------------------------------------------------------------
\* Properties of the model store
\* ------------------------------------------------------------------------

\* C4: whenever an inference can run with is_trained true, the scaler, the
\* PM2.5 regressor and the traffic regressor come from the same training run
\* or the same load; a retrain, also one that stops partway with an error,
\* never leaves a mix of old and new artifacts visible to inference.
C4_NoMixedArtifacts ==
    (phase = "serving" /\ ml.is_trained) =>
        /\ ml.scaler # NoneVal
        /\ ml.pm25_model # NoneVal
        /\ ml.traffic_model # NoneVal
        /\ ml.scaler.run = ml.pm25_model.run
        /\ ml.pm25_model.run = ml.traffic_model.run

\* C5: when load_models runs and some persisted artifact (either regressor,
\* the scaler or the metrics) has bytes on disk that differ from the bytes
\* hashed into the checksum manifest at save time, load_models returns False
\* and loads none of the artifacts (the instance is as before, is_trained
\* stays false).
C5_DamagedArtifactRejected ==
    [][(/\ phase = "init_load"
        /\ phase' # "init_load"
        /\ manifestAtSave # NoneVal
        /\ \E n \in FileNames \ {"checksums"} :
              ComputeFileHash(disk[n]) # manifestAtSave[n])
       => (/\ loadResult' = "False"
           /\ ml' = ml
           /\ ~ml'.is_trained)]_vars

\* ------------------------------------------------------------------------
\* Properties of predict
\* ------------------------------------------------------------------------

\* C8: whenever a live pollutant index is supplied (live_aqi > 0) and the
\* model is called, the lag values passed to it (prev_pm25, avg_pm25_7d) are
\* the ones derived from that live reading, even when the historical data
\* also has recent PM2.5 rows.
C8_LiveLagsPreferred ==
    (/\ loc.tag = "locals"
     /\ loc.ml_args # NoneVal
     /\ req.live_aqi # NoneVal
     /\ req.live_aqi.v > 0)
    => /\ loc.ml_args.prev_pm25 = AqiToApproxPm25(req.live_aqi.v)
       /\ loc.ml_args.avg_pm25_7d = AqiToApproxPm25(req.live_aqi.v)

\* C9: with no trained model, no live data and no supplied temperature, for
\* a month that has n historical records, the result is the statistical
\* baseline and its confidence is min(0.92, 0.55 + 0.002 * n), 0.67 for
\* n = 60: the +0.03 bonus needs a supplied temperature.
C9_BaselineConfidence ==
    (/\ loc.tag = "locals"
     /\ ~ml.is_trained
     /\ req.live_aqi = NoneVal
     /\ req.live_traffic = NoneVal
     /\ req.live_temp = NoneVal
     /\ req.temperature = NoneVal
     /\ req.month \in DOMAIN monthly_stats)
    => LET n == monthly_stats[req.month].records IN
       /\ loc.method = "stat"
       /\ loc.confidence = IF 550 + 2 * n > 920 THEN 920 ELSE 550 + 2 * n
       /\ (n = 60 => loc.confidence = 670)

\* C10: when the model result is available, the pollutant index is
\* round(0.7 * model + 0.3 * baseline), the congestion index is
\* 0.7 * model + 0.3 * baseline rounded to one decimal, and the confidence is
\* min(0.95, max(model, baseline)); model (100, 50, 0.8) and baseline
\* (80, 60, 0.6) give 94, 53 and 0.8.
C10_Blend ==
    (/\ loc.tag = "locals"
     /\ loc.ml_result # NoneVal
     /\ loc.ml_result.tag = "ok")
    => LET m == loc.ml_result
           hi == IF m.confidence > loc.stat_confidence
                 THEN m.confidence ELSE loc.stat_confidence
       IN  /\ loc.method = "ml"
           /\ loc.aqi_prediction =
                  RoundHalfEven(7 * m.aqi_prediction + 3 * loc.stat_aqi, 10)
           /\ loc.traffic_prediction.d = 1
           /\ loc.traffic_prediction.n =
                  RoundHalfEven(7 * m.traffic_prediction * loc.stat_traffic.d
                                    + 3 * loc.stat_traffic.n,
                                10 * loc.stat_traffic.d)
           /\ loc.confidence = (IF hi > 950 THEN 950 ELSE hi)
           /\ (/\ m.aqi_prediction = 100
               /\ m.traffic_prediction = 500
               /\ m.confidence = 800
               /\ loc.stat_aqi = 80
               /\ loc.stat_traffic = [n |-> 600, d |-> 1]
               /\ loc.stat_confidence = 600)
              => /\ loc.aqi_prediction = 94
                 /\ loc.traffic_prediction = [n |-> 530, d |-> 1]
                 /\ loc.confidence = 800

\* C10 witness: model (100, 50.0, 0.8) and baseline (80, 60.0, 0.6) have
\* been blended to 94, 53.0 and 0.8 and the response is built.
C10_Witness ==
    /\ prpc = "done"
    /\ loc.tag = "locals"
    /\ loc.method = "ml"
    /\ loc.ml_result.aqi_prediction = 100
    /\ loc.ml_result.traffic_prediction = 500
    /\ loc.ml_result.confidence = 800
    /\ loc.stat_aqi = 80
    /\ loc.stat_traffic = [n |-> 600, d |-> 1]
    /\ loc.stat_confidence = 600
    /\ response.aqi_prediction = 94
    /\ response.traffic_index_prediction = 530
    /\ response.confidence_score = 80

\* C11: when the trained model is unavailable (not trained, or its predict
\* gave an error) or no temperature could be resolved, the indices are the
\* statistical baseline's values after clamping, the confidence is the
\* baseline's, and the method named in the reasoning is the statistical one.
C11_FallbackIsBaseline ==
    (/\ loc.tag = "locals"
     /\ \/ ~ml.is_trained
        \/ loc.effective_temp = NoneVal
        \/ (loc.ml_result # NoneVal /\ loc.ml_result.tag = "error"))
    => /\ loc.method = "stat"
       /\ loc.aqi_prediction =
              (IF loc.stat_aqi < 0 THEN 0
               ELSE IF loc.stat_aqi > 500 THEN 500 ELSE loc.stat_aqi)
       /\ loc.traffic_prediction =
              (IF loc.stat_traffic.n < 0 THEN [n |-> 0, d |-> 1]
               ELSE IF loc.stat_traffic.n > 1000 * loc.stat_traffic.d
               THEN [n |-> 1000, d |-> 1] ELSE loc.stat_traffic)
       /\ loc.confidence = loc.stat_confidence
       /\ (prpc = "done" =>
              /\ response.reasoning_method = "stat"
              /\ response.aqi_prediction = loc.aqi_prediction
              /\ response.traffic_index_prediction =
                     RoundHalfEven(loc.stat_traffic.n, loc.stat_traffic.d)
              /\ response.confidence_score =
                     RoundHalfEven(loc.stat_confidence, 10))

\* C11 witness: an untrained service has answered a weekend request for a
\* month with data from the baseline alone.
C11_Witness ==
    /\ prpc = "done"
    /\ ~ml.is_trained
    /\ req.month = 1
    /\ req.is_weekend
    /\ loc.stat_aqi = 150
    /\ response.aqi_prediction = 150
    /\ response.reasoning_method = "stat"

\* C12: every response produced without the trained model (baseline only)
\* carries is_mock = true, whether or not the text generator is configured
\* and whether or not a query was given.
C12_FallbackFlagged ==
    (prpc = "done" /\ loc.method = "stat") => response.is_mock

\* C13: every response has aqi_prediction an integer in 0..500,
\* traffic_index_prediction in 0..100 and confidence_score in [0.30, 0.95].
C13_ResponseRanges ==
    prpc = "done" =>
        /\ response.aqi_prediction \in 0..500
        /\ response.traffic_index_prediction \in 0..1000
        /\ response.confidence_score \in 30..95

\* C13 witness: a request at 15 degrees in January, where the regression
\* puts the baseline below zero, has been answered with index 0.
C13_Witness ==
    /\ prpc = "done"
    /\ req.month = 1
    /\ req.temperature = Some(150)
    /\ req.live_temp = NoneVal
    /\ loc.method = "stat"
    /\ response.aqi_prediction = 0

\* C14: predict answers whatever the text generator does. Without a client,
\* or when the generator was invoked and raised or timed out, the text is
\* the composed template and is_mock is true; is_mock is false only with a
\* client and either its text returned or no query.
C14_GeneratorNeverBlocks ==
    /\ prpc # "raised"
    /\ prpc = "done" =>
          /\ response # NoneVal
          /\ ~groq_client =>
                (response.prediction = "base_insight" /\ response.is_mock)
          /\ loc.groq_call \in {"raises", "times_out"} =>
                (response.prediction = "base_insight" /\ response.is_mock)
          /\ ~response.is_mock <=>
                (groq_client /\ (loc.groq_call = "text" \/ ~req.query))
          /\ loc.groq_call = "text" => response.prediction = "groq_text"
          /\ (loc.groq_call # "not_called") <=> (groq_client /\ req.query)

\* C14 witness: the generator was invoked and timed out, and the response
\* went out with the template text and the flag set.
C14_Witness ==
    /\ prpc = "done"
    /\ groq_client
    /\ req.query
    /\ loc.groq_call = "times_out"
    /\ response.prediction = "base_insight"
    /\ response.is_mock

\* C20: the effective temperature is the live temperature if given, else
\* the explicit one if given, else the month's mean; 0 degrees counts as
\* given at every step that uses the temperature, the context handed to the
\* text generator included.
C20_ZeroIsGiven ==
    loc.tag = "locals" =>
        /\ req.live_temp # NoneVal => loc.effective_temp = req.live_temp
        /\ (req.live_temp = NoneVal /\ req.temperature # NoneVal)
              => loc.effective_temp = req.temperature
        /\ (req.live_temp = NoneVal /\ req.temperature = NoneVal
               /\ req.month \in DOMAIN monthly_stats)
              => loc.effective_temp.v = monthly_stats[req.month].temp_mean
        /\ (loc.temp_str.tag # "unset" /\ loc.effective_temp # NoneVal)
              => /\ loc.temp_str.tag = "degrees"
                 /\ loc.temp_str.v = loc.effective_temp.v

\* C15: if writing any model artifact or the checksum manifest fails during
\* a retrain, the failure reaches the administrative caller: the retrain
\* trigger does not return a success response.
C15_SaveFailurePropagates ==
    [][(/\ phase = "serving"
        /\ runs' = runs + 1
        /\ trainResult' = "metrics"
        /\ \/ \E n \in FileNames \ {"checksums"} : disk'[n] # File(ml'[n])
           \/ disk'["checksums"] = NoneVal
           \/ disk'["checksums"] # Manifest(manifestAtSave')
           \/ manifestAtSave' = manifestAtSave)
       => httpResult' # "200"]_vars

\* C16: whenever no historical data is loaded (the store is missing or has
\* zero rows), the retrain trigger reports failure to its caller, never a
\* success response, and the in-memory model is left unchanged.
C16_RetrainWithoutData ==
    [][(/\ phase = "serving"
        /\ runs' = runs + 1
        /\ dfState \in {"none", "empty"})
       => (httpResult' \in {"400", "500"} /\ ml' = ml)]_vars

\* C17: at startup, if load_models rejects the persisted artifacts for a
\* checksum mismatch, nothing of them is loaded and, when historical data is
\* loaded, initialization goes on to retrain; after that initialization the
\* model is untrained or the product of the fresh training run.
C17_RejectedThenRetrained ==
    [][/\ (/\ phase = "init_load"
           /\ phase' # "init_load"
           /\ sklearn
           /\ \A n \in RequiredFiles : disk[n] # NoneVal
           /\ disk["checksums"] # NoneVal
           /\ ~disk["checksums"].torn
           /\ \E n \in VerifiedFiles :
                 ComputeFileHash(disk[n]) # disk["checksums"].sums[n])
          => /\ loadResult' = "False"
             /\ ml' = FreshModel
             /\ dfState \in {"small", "ok"} => phase' = "init_train"
       /\ (/\ phase = "init_train"
           /\ phase' = "serving"
           /\ ml = FreshModel)
          => \/ ml' = FreshModel
             \/ /\ ml'.is_trained
                /\ \A a \in {"scaler", "pm25_model", "traffic_model"} :
                      /\ ml'[a] # NoneVal
                      /\ ml'[a].run = runs'
                      /\ ml'[a].fitted
                      /\ ~ml'[a].damaged]_vars

\* C17 witness: a restarted process found a changed regressor file under an
\* intact manifest, and now serves the model of the training run that
\* followed (whose own save wrote nothing).
C17_Witness ==
    /\ phase = "serving"
    /\ restarts = 1
    /\ loadResult = "False"
    /\ httpResult = "none"
    /\ trainResult = "metrics"
    /\ ml.is_trained
    /\ ml.pm25_model.run = runs
    /\ disk["pm25_model"] # NoneVal
    /\ disk["pm25_model"].flips = 1
    /\ disk["pm25_model"].obj.run < runs
    /\ disk["checksums"] # NoneVal
    /\ ~disk["checksums"].torn
    /\ ComputeFileHash(disk["pm25_model"])
           # disk["checksums"].sums["pm25_model"]

\* C18: when the weather fetch succeeds and the air-quality fetch fails, the
\* refresh still succeeds: the cache is replaced by a payload built from the
\* weather body alone, stamped with the current time and returned, in which
\* no daily entry has aqi_mean, aqi_max or pm25_mean and no hourly entry has
\* aqi.
C18_WeatherOnlyPayload ==
    [][\A i \in Callers :
         (/\ pc[i] = "aqi"
          /\ pc'[i] = "done"
          /\ forecast[i].body = "ok"
          /\ merged_aqi'[i] = "None")
         => /\ cache' # NoneVal
            /\ cache'.weather = forecast[i].id
            /\ cache_time' = now
            /\ ret'[i] = cache'
            /\ cache'.daily \cap {"aqi_mean", "aqi_max", "pm25_mean"} = {}
            /\ cache'.hourly \cap {"aqi"} = {}
            /\ cache'.daily # {}
            /\ cache'.hourly # {}]_vars

\* C18 witness: a call whose weather fetch succeeded and whose air-quality
\* fetch failed has returned the payload now in the cache.
C18_Witness ==
    \E i \in Callers :
        /\ pc[i] = "done"
        /\ path[i] = "fetch"
        /\ forecast[i].body = "ok"
        /\ merged_aqi[i] = "None"
        /\ cache # NoneVal
        /\ ret[i] = cache
        /\ cache.weather = forecast[i].id
        /\ "temp_mean" \in cache.daily
        /\ "aqi_mean" \notin cache.daily

\* C19: SmartCityMLModel.predict on a model that is not trained returns the
\* error value, without raising and without changing the model or the files;
\* when it returns a prediction, pm25_prediction is within 0..500 (tenths
\* 0..5000), traffic_prediction within 0..100 (tenths 0..1000) and
\* aqi_prediction is pm25_to_aqi of the regressor's output clamped to 0..500.
C19_PredictContract ==
    [][lastInference' # lastInference =>
         LET r == lastInference'.result
             raw == lastInference'.regressors
             clamped == IF raw[1] < 0 THEN 0
                        ELSE IF raw[1] > 50000 THEN 50000 ELSE raw[1]
         IN  /\ ml' = ml
             /\ disk' = disk
             /\ ~ml.is_trained => r = [tag |-> "error"]
             /\ ~ml.is_trained => raw = <<>>
             /\ r.tag = "ok" =>
                   /\ ml.is_trained
                   /\ r.pm25_prediction \in 0..5000
                   /\ r.traffic_prediction \in 0..1000
                   /\ r.aqi_prediction = pm25_to_aqi(Conc(clamped))]_vars

\* C19 witness: a trained model whose regressors answered above both ranges
\* returned the two upper limits and the index of 500 ug/m3.
C19_Witness ==
    /\ lastInference.tag = "call"
    /\ ml.is_trained
    /\ lastInference.regressors = <<51234, 10250>>
    /\ lastInference.result.tag = "ok"
    /\ lastInference.result.pm25_prediction = 5000
    /\ lastInference.result.traffic_prediction = 1000
    /\ lastInference.result.aqi_prediction = pm25_to_aqi(Conc(50000))

\* C21: once the shutdown handler has completed, the forecast service's HTTP
\* client, if it was ever opened, is closed.
C21_ShutdownClosesClient ==
    (stopped /\ http_client # "None") => http_client = "closed"

\* C25: refreshes are serialized: at most one get_forecast call is between
\* acquiring and releasing the lock, that call is the lock's holder, and so
\* at most one weather-then-air-quality fetch sequence is in flight.
C25_RefreshesSerialized ==
    /\ \A i, j \in Callers :
          (/\ pc[i] \in {"locked", "weather", "aqi"}
           /\ pc[j] \in {"locked", "weather", "aqi"}) => i = j
    /\ \A i \in Callers :
          pc[i] \in {"locked", "weather", "aqi"} => lockHolder = i
    /\ Cardinality({i \in Callers : pc[i] \in {"weather", "aqi"}}) <= 1

\* C25 witness: one call is fetching while another waits for the lock.
C25_Witness ==
    \E i, j \in Callers :
        /\ i # j
        /\ pc[i] = "aqi"
        /\ lockHolder = i
        /\ pc[j] = "waiting"
        /\ waiters = <<j>>

\* C30: once a refresh has succeeded the cache entry is never cleared or
\* reverted, every get_forecast call from then on returns a payload, and a
\* call returns None only while no refresh has ever succeeded.
C30_CacheNeverCleared ==
    [][/\ cache # NoneVal =>
            /\ cache' # NoneVal
            /\ cache'.fetched_at >= cache.fetched_at
            /\ cache_time' >= cache_time
       /\ \A i \in Callers :
            (pc[i] # "done" /\ pc'[i] = "done") =>
                /\ cache # NoneVal => ret'[i] # NoneVal
                /\ ret'[i] = NoneVal => (cache = NoneVal /\ cache' = NoneVal)]_vars

\* C30 witness: a refresh whose weather fetch failed, made after an earlier
\* one had succeeded, returned the payload that is still in the cache.
C30_Witness ==
    \E i \in Callers :
        /\ pc[i] = "done"
        /\ path[i] = "fetch"
        /\ forecast[i].body = "None"
        /\ cache # NoneVal
        /\ ret[i] = cache
        /\ cache_time < fetchTime[i]

\* the forecast service under a fair scheduler in which every provider fetch
\* terminates: a call that can take its next step eventually takes it. The
\* clock stands still, so a cached payload stays fresh and a missing one
\* stays missing.
FairNext ==
    \/ \E i \in Callers : GetForecast(i)
    \/ \E i \in Callers : Recheck(i)
    \/ \E i \in Callers : WeatherReturns(i)
    \/ \E i \in Callers : AqiReturns(i)
    \/ \E i \in Callers : Return(i)
FairForecast ==
    \A i \in Callers :
        /\ WF_vars(Recheck(i))
        /\ WF_vars(WeatherReturns(i))
        /\ WF_vars(AqiReturns(i))
InitFair == FcInit /\ AqiRest /\ MlRest /\ PrRest /\ FeRest
SpecForecastFair == InitFair /\ [][FairNext]_vars /\ FairForecast

\* C26: if every provider fetch terminates and the scheduler is fair, every
\* get_forecast call that went for the lock eventually returns: the lock is
\* released on every path, so no waiting caller is blocked forever.
C26_EveryCallReturns ==
    \A i \in Callers :
        (pc[i] \in {"locked", "waiting", "weather", "aqi"}) ~> (pc[i] = "done")

\* C26 witness: a caller that had to wait for the lock has returned, on the
\* re-check path, after the holder's refresh.
C26_Witness ==
    \E i \in Callers :
        /\ pc[i] = "done"
        /\ path[i] = "recheck"
        /\ cohort[i] # {}
        /\ ret[i] # NoneVal

\* the files are exactly what one complete _save_models call of a finished
\* training run wrote
CompleteSave(dk) ==
    /\ \A n \in FileNames : dk[n] # NoneVal
    /\ \A n \in FileNames \ {"checksums"} :
          /\ dk[n].flips = 0
          /\ ~dk[n].torn
          /\ dk[n].obj.run = dk["metrics"].obj.run
    /\ dk["metrics"].obj.full
    /\ dk["checksums"] =
          Manifest([n \in FileNames \ {"checksums"} |-> ComputeFileHash(dk[n])])

\* get_info of the instance whose train call wrote those files
InfoOfTrainer(sk, dk) ==
    [is_trained |-> TRUE,
     sklearn_available |-> sk,
     metrics |-> dk["metrics"].obj,
     feature_importance |->
         [tag |-> "importance", run |-> dk["metrics"].obj.run],
     seasonal_diagnostics |->
         [tag |-> "seasonal", run |-> dk["metrics"].obj.run],
     model_files_exist |-> TRUE]

\* C22: after a successful train, which saves, a new instance that calls
\* load_models exposes through get_info the same trained flag, metrics,
\* feature importances and seasonal diagnostics as the instance that trained.
C22_RoundTrip ==
    [][(/\ phase = "init_load"
        /\ phase' # "init_load"
        /\ ml = FreshModel
        /\ sklearn
        /\ CompleteSave(disk))
       => /\ loadResult' = "True"
          /\ GetInfo(ml', sklearn, disk') = InfoOfTrainer(sklearn, disk)]_vars

\* C28: when train returns an error value (the regression library is not
\* there, or fewer than 100 usable rows), is_trained, the scaler, both
\* regressors, the metrics and the files are as before, and an inference
\* uses what it used before.
C28_ErrorLeavesModel ==
    [][(/\ runs' = runs + 1
        /\ trainResult' \in {"error_sklearn", "error_insufficient"})
       => /\ ml' = ml
          /\ disk' = disk
          /\ Inference(ml', sklearn') = Inference(ml, sklearn)]_vars

\* C28 witness: a process that loaded a trained model from the files was
\* asked to retrain on too few rows, got the error value, and still holds
\* the model.
C28_Witness ==
    /\ phase = "serving"
    /\ loadResult = "True"
    /\ dfState = "small"
    /\ trainResult = "error_insufficient"
    /\ httpResult = "200"
    /\ ml.is_trained
    /\ Inference(ml, sklearn).tag = "ok"

\* C29: over any sequence of saves, each of which completes or stops after
\* any prefix of its writes, load_models never accepts regressors and a
\* scaler that were written by different training runs.
C29_NoMixedLoad ==
    [][(/\ phase = "init_load"
        /\ loadResult' = "True"
        /\ flips = 0)
       => /\ ml'.pm25_model.run = ml'.traffic_model.run
          /\ ml'.pm25_model.run = ml'.scaler.run]_vars

\* C27: when a retrain completes while a predict request is suspended, all
\* model-derived fields of the response come from one model version: the
\* accuracy quoted in the reasoning is that of the model whose prediction and
\* confidence the response carries.
C27_OneModelVersion ==
    (/\ prpc = "done"
     /\ response # NoneVal
     /\ response.reasoning_accuracy # NoneVal)
    => response.reasoning_accuracy =
           Some(<<loc.ml_metrics.pm25_r2, loc.ml_metrics.traffic_r2>>)

\* C23: in training mode, for every row i the lag-1 feature is the value of
\* row i-1 and the rolling-7 feature is the mean over rows max(first, i-7)
\* to i-1, so no feature of row i reads row i or a later one; for the first
\* row both are missing, and that row is dropped before training.
C23_FeaturesReadThePast ==
    df_feat # NoneVal =>
        /\ df_feat.lag1[1] = NullCell
        /\ df_feat.rolling7[1] = NullCell
        /\ 1 \notin df_feat.kept
        /\ \A i \in 2..Len(column) :
              LET from == IF i - 7 >= 1 THEN i - 7 ELSE 1
                  total == SeqSum([j \in 1..Len(column) |->
                                     IF j >= from /\ j <= i - 1
                                     THEN column[j] ELSE 0])
              IN  /\ df_feat.lag1[i] = Cell(i - 1, column[i - 1])
                  /\ df_feat.rolling7[i].rows = from..(i - 1)
                  /\ df_feat.rolling7[i].mean = Rat(total, i - from)
                  /\ \A r \in df_feat.rolling7[i].rows : r < i
                  /\ i \in df_feat.kept

\* C23 witness: a column of nine rows whose ninth rolling feature is the
\* mean of rows 2 to 8, the first row no longer in its window.
C23_Witness ==
    /\ df_feat # NoneVal
    /\ Len(column) = 9
    /\ column[1] = 30
    /\ \A j \in 2..8 : column[j] = 10
    /\ df_feat.rolling7[9].mean = Rat(10, 1)
    /\ df_feat.rolling7[8].mean = Rat(90, 7)

\* C24: the scaler is fitted only on rows of the training split of both
\* models: no row of the held-out split of the PM2.5 model or of the traffic
\* model is among the rows the scaler was fitted on, for any number of
\* interpolated rows.
C24_ScalerSeesNoHeldOutRow ==
    (splits # NoneVal /\ splits.tag = "split") =>
        /\ splits.scaler_fit \cap splits.pm25_test = {}
        /\ splits.scaler_fit \cap splits.traffic_test = {}

====
